---- MODULE Spec2Model ----
(***************************************************************************)
(* Model of src/steiner-curve.py: the SteinerCurve parameter object, the   *)
(* Animator (sample lists, frame index, running flag, timer) and the       *)
(* MainWindow handlers that drive them.                                    *)
(*                                                                         *)
(* Lengths R, r, d are integers in hundredths (3.0 is 300): the spin boxes *)
(* are QDoubleSpinBox with the default two decimals, so every value they   *)
(* hold is a whole number of hundredths.                                   *)
(*                                                                         *)
(* A list built by the curve over np.linspace(0, 2*pi, n) is represented   *)
(* by what it was computed from: its length n, the parameters the formula  *)
(* read and the formula of its entries (entry).  The empty list has        *)
(* len = 0.  Entry 0, at the angle t = 0 where cos and sin are exact, is   *)
(* also evaluated (Point).                                                 *)
(*                                                                         *)
(* Six specifications share the state and the handlers:                   *)
(*   Spec       the window driven by its user and the timer                *)
(*   SpecFault  Spec, with an evaluation of generate_points raising        *)
(*   SpecCore   the Animator's methods called directly                     *)
(*   SpecCurve  SteinerCurve.set_parameters called with any arguments      *)
(*   SpecParams SpecCurve, with edits of the three spin boxes              *)
(*   SpecSample SpecCurve, with calls of Animator.generate_points          *)
(***************************************************************************)
EXTENDS Integers, FiniteSets, Sequences, TLC

VARIABLES steiner_curve, animator, ui, out

vars == <<steiner_curve, animator, ui, out>>

(***************************************************************************)
(* Program constants                                                       *)
(***************************************************************************)
total_steps == 300
slider_minimum == 0
slider_maximum == 299
spin_minimum == 10
spin_maximum == 1000
default_R == 300
default_r == 100
default_d == 100

(***************************************************************************)
(* Bounds of the model                                                     *)
(***************************************************************************)
\* r_spin and d_spin are edited to 1.0, 2.0, ..., MaxSpinLevel.0 and R_spin is
\* left at its default; set_parameters is also called directly, with these
\* values, the default R, zero and a negative value
MaxSpinLevel == 2
\* slider positions and set_frame arguments tried around both ends of the range
MaxSeek == 1

Levels == {100 * k : k \in 1..MaxSpinLevel}
SpinInputs == Levels
ArgInputs == {-100, 0, default_R} \cup Levels
SliderInputs == (slider_minimum .. slider_minimum + MaxSeek)
                  \cup (slider_maximum - MaxSeek .. slider_maximum)
StepInputs == (-MaxSeek .. MaxSeek)
                \cup (total_steps - MaxSeek .. total_steps + MaxSeek)
\* the evaluation of generate_points that raises, if any
FailPoints == {"none", "cartesian", "polar", "rolling"}

Min(a, b) == IF a <= b THEN a ELSE b
Max(a, b) == IF a >= b THEN a ELSE b

(***************************************************************************)
(* class SteinerCurve                                                      *)
(***************************************************************************)
\* w is the whole program state threaded through a call: curve, anim, ui and
\* the observable outcome of the call (ret, exc, box, frames, gen, called).

\* mutant: R and r are stored before the d <= r check
set_parameters_partial(w, R, r, d) ==
    LET w0 == [w EXCEPT !.called = Append(@, <<R, r, d>>)]
    IN  IF R <= 0 \/ r <= 0 \/ d <= 0
          THEN [w0 EXCEPT !.exc = "ValueError"]
          ELSE IF d > r
                 THEN [w0 EXCEPT !.curve.R = R, !.curve.r = r,
                                 !.exc = "ValueError"]
                 ELSE [w0 EXCEPT !.curve = [R |-> R, r |-> r, d |-> d]]

\* mutant: the check of d against r is missing
set_parameters_no_d_check(w, R, r, d) ==
    LET w0 == [w EXCEPT !.called = Append(@, <<R, r, d>>)]
    IN  IF R <= 0 \/ r <= 0 \/ d <= 0
          THEN [w0 EXCEPT !.exc = "ValueError"]
          ELSE [w0 EXCEPT !.curve = [R |-> R, r |-> r, d |-> d]]

\* w0 notes the call and its arguments in the record of the enclosing handler
set_parameters(w, R, r, d) ==
    LET w0 == [w EXCEPT !.called = Append(@, <<R, r, d>>)]
    IN  IF R <= 0 \/ r <= 0 \/ d <= 0
          THEN [w0 EXCEPT !.exc = "ValueError"]
          ELSE IF d > r
                 THEN [w0 EXCEPT !.exc = "ValueError"]
                 ELSE [w0 EXCEPT !.curve = [R |-> R, r |-> r, d |-> d]]

EmptyList == [len |-> 0, R |-> 0, r |-> 0, d |-> 0, entry |-> "none"]

\* t_values is the number of angles of np.linspace(0, 2*pi, n)
calculate_cartesian(curve, t_values) ==
    [len |-> t_values, R |-> curve.R, r |-> curve.r, d |-> curve.d,
     entry |-> "Point(x, y)"]

\* the radii and the angles are taken from the points of a second evaluation
\* of calculate_cartesian
calculate_polar(curve, t_values) ==
    LET points == calculate_cartesian(curve, t_values)
        r == [points EXCEPT !.entry = "sqrt(p.x**2 + p.y**2)"]
        theta == [points EXCEPT !.entry = "arctan2(p.y, p.x)"]
    IN  <<r, theta>>

calculate_rolling_circle(curve, t_values) ==
    LET x == [len |-> t_values, R |-> curve.R, r |-> curve.r, d |-> 0,
              entry |-> "(R - r) * cos(t)"]
        y == [len |-> t_values, R |-> curve.R, r |-> curve.r, d |-> 0,
              entry |-> "(R - r) * sin(t)"]
    IN  <<x, y>>

\* np.cos and np.sin, exact at the angle 0 only
cos(t) == CASE t = 0 -> 1
sin(t) == CASE t = 0 -> 0

\* mutant: the second term of x is subtracted
Point_minus(points, i) ==
    LET t == CASE i = 0 -> 0
        kt == ((points.R - points.r) * t) \div points.r
    IN  [x |-> (points.R - points.r) * cos(t) - points.d * cos(kt),
         y |-> (points.R - points.r) * sin(t) - points.d * sin(kt)]

\* points[i] of a list built by calculate_cartesian: Point(x[i], y[i]) at the
\* angle t = t_values[i], for i = 0, where np.linspace(0, 2*pi, n) starts at
\* t = 0; kt is ((R - r)/r) * t
Point(points, i) ==
    LET t == CASE i = 0 -> 0
        kt == ((points.R - points.r) * t) \div points.r
    IN  [x |-> (points.R - points.r) * cos(t) + points.d * cos(kt),
         y |-> (points.R - points.r) * sin(t) - points.d * sin(kt)]

(***************************************************************************)
(* class Animator                                                          *)
(***************************************************************************)
AnimatorInit ==
    [current_step      |-> 0,
     animation_running |-> FALSE,
     timer_active      |-> FALSE,
     points            |-> EmptyList,
     polar_r           |-> EmptyList,
     polar_theta       |-> EmptyList,
     rolling_circle_x  |-> EmptyList,
     rolling_circle_y  |-> EmptyList]

generate_points(w, fail) ==
    LET t_values == total_steps
        except(v) == [v EXCEPT !.box = "critical", !.ret = "False", !.gen = "failed"]
        w1 == [w EXCEPT !.anim.points = calculate_cartesian(w.curve, t_values)]
        polar == calculate_polar(w.curve, t_values)
        w2 == [w1 EXCEPT !.anim.polar_r = polar[1], !.anim.polar_theta = polar[2]]
        rolling == calculate_rolling_circle(w.curve, t_values)
        w3 == [w2 EXCEPT !.anim.rolling_circle_x = rolling[1],
                         !.anim.rolling_circle_y = rolling[2]]
    IN  CASE fail = "cartesian" -> except(w)
          [] fail = "polar"     -> except(w1)
          [] fail = "rolling"   -> except(w2)
          [] OTHER              -> [w3 EXCEPT !.ret = "True", !.gen = "ok"]

\* mutant: the animation starts without a sample being generated
start_animation_no_generate(w, fail) ==
    IF ~ w.anim.animation_running
      THEN [w EXCEPT !.anim.animation_running = TRUE,
                     !.anim.timer_active = TRUE,
                     !.ret = "True"]
      ELSE [w EXCEPT !.ret = "False"]

start_animation(w, fail) ==
    LET w1 == IF w.anim.points.len = 0 THEN generate_points(w, fail) ELSE w
    IN  IF w.anim.points.len = 0 /\ w1.ret # "True"
          THEN [w1 EXCEPT !.ret = "False"]
          ELSE IF ~ w1.anim.animation_running
                 THEN [w1 EXCEPT !.anim.animation_running = TRUE,
                                 !.anim.timer_active = TRUE,
                                 !.ret = "True"]
                 ELSE [w1 EXCEPT !.ret = "False"]

\* mutant: stopping also rewinds to the first frame
stop_animation_reset(w) ==
    IF w.anim.animation_running
      THEN [w EXCEPT !.anim.animation_running = FALSE,
                     !.anim.timer_active = FALSE,
                     !.anim.current_step = 0,
                     !.ret = "True"]
      ELSE [w EXCEPT !.ret = "False"]

stop_animation(w) ==
    IF w.anim.animation_running
      THEN [w EXCEPT !.anim.animation_running = FALSE,
                     !.anim.timer_active = FALSE,
                     !.ret = "True"]
      ELSE [w EXCEPT !.ret = "False"]

\* mutant: the guard on an empty points list is missing
draw_current_frame_no_guard(w) ==
    LET a == w.anim
    IN  IF a.current_step >= a.points.len
             \/ a.current_step >= a.rolling_circle_x.len
             \/ a.current_step >= a.rolling_circle_y.len
             \/ a.current_step >= a.polar_theta.len
             \/ a.current_step >= a.polar_r.len
          THEN [w EXCEPT !.exc = "IndexError"]
          ELSE [w EXCEPT !.frames = @ + 1]

\* An index past the end of rolling_circle_x / polar_theta raises IndexError;
\* nothing catches it, so it leaves the handler (exc stays set).
draw_current_frame(w) ==
    LET a == w.anim
    IN  IF a.points.len = 0 \/ a.current_step >= a.points.len
          THEN w
          ELSE IF a.current_step >= a.rolling_circle_x.len
                    \/ a.current_step >= a.rolling_circle_y.len
                    \/ a.current_step >= a.polar_theta.len
                    \/ a.current_step >= a.polar_r.len
                 THEN [w EXCEPT !.exc = "IndexError"]
                 ELSE [w EXCEPT !.frames = @ + 1]

\* mutant: the step is bounded to the range instead of wrapped
set_frame_clamp(w, step) ==
    draw_current_frame(
        [w EXCEPT !.anim.current_step = Max(0, Min(total_steps - 1, step))])

\* mutant: seeking lands one frame after the requested one
set_frame_next(w, step) ==
    draw_current_frame([w EXCEPT !.anim.current_step = (step + 1) % total_steps])

set_frame(w, step) ==
    draw_current_frame([w EXCEPT !.anim.current_step = step % total_steps])

\* mutant: the slider takes the value without emitting valueChanged
slider_setValue_silent(w, value) ==
    LET v == Max(slider_minimum, Min(slider_maximum, value))
    IN  [w EXCEPT !.ui.slider = v]

\* QSlider.setValue: the value is bounded to the range; valueChanged, which
\* init_ui connects to animator.set_frame, is emitted only when it changes.
slider_setValue(w, value) ==
    LET v == Max(slider_minimum, Min(slider_maximum, value))
    IN  IF v = w.ui.slider
          THEN w
          ELSE set_frame([w EXCEPT !.ui.slider = v], v)

\* mutant: the guard on the running flag is missing
update_frame_unguarded(w) ==
    LET w1 == [w EXCEPT !.anim.current_step = (@ + 1) % total_steps]
        w2 == slider_setValue(w1, w1.anim.current_step)
    IN  IF w2.exc # "none" THEN w2 ELSE draw_current_frame(w2)

\* mutant: the step is advanced without wrapping
update_frame_no_wrap(w) ==
    IF ~ w.anim.animation_running
      THEN w
      ELSE LET w1 == [w EXCEPT !.anim.current_step = @ + 1]
               w2 == slider_setValue(w1, w1.anim.current_step)
           IN  IF w2.exc # "none" THEN w2 ELSE draw_current_frame(w2)

update_frame(w) ==
    IF ~ w.anim.animation_running
      THEN w
      ELSE LET w1 == [w EXCEPT !.anim.current_step = (@ + 1) % total_steps]
               w2 == slider_setValue(w1, w1.anim.current_step)
           IN  IF w2.exc # "none" THEN w2 ELSE draw_current_frame(w2)

(***************************************************************************)
(* class MainWindow                                                        *)
(***************************************************************************)
UiInit ==
    [R_spin |-> default_R, r_spin |-> default_r, d_spin |-> default_d,
     slider |-> slider_minimum, animation_button |-> "Start"]

RECURSIVE update_parameters(_)

\* QDoubleSpinBox.setValue: bounded to the range; valueChanged, connected to
\* update_parameters for all three boxes, is emitted only when the value changes.
spin_setValue(w, box, value) ==
    LET v == Max(spin_minimum, Min(spin_maximum, value))
    IN  IF v = w.ui[box]
          THEN w
          ELSE update_parameters([w EXCEPT !.ui[box] = v])

\* mutant: d is not compared with r before set_parameters is called
update_parameters_unchecked(w) ==
    LET R == w.ui.R_spin
        r == w.ui.r_spin
        d == w.ui.d_spin
        w1 == set_parameters(w, R, r, d)
    IN  IF w1.exc = "ValueError"
          THEN [w1 EXCEPT !.exc = "none", !.box = "warning"]
          ELSE IF w1.anim.animation_running
                 THEN [stop_animation(w1) EXCEPT !.ui.animation_button = "Start"]
                 ELSE w1

\* mutant: a running animation is not stopped when the parameters change
update_parameters_no_stop(w) ==
    LET R == w.ui.R_spin
        r == w.ui.r_spin
        d == w.ui.d_spin
    IN  IF d > r
          THEN spin_setValue([w EXCEPT !.box = "warning"], "d_spin", Min(d, r))
          ELSE LET w1 == set_parameters(w, R, r, d)
               IN  IF w1.exc = "ValueError"
                     THEN [w1 EXCEPT !.exc = "none", !.box = "warning"]
                     ELSE w1

update_parameters(w) ==
    LET R == w.ui.R_spin
        r == w.ui.r_spin
        d == w.ui.d_spin
    IN  IF d > r
          THEN spin_setValue([w EXCEPT !.box = "warning"], "d_spin", Min(d, r))
          ELSE LET w1 == set_parameters(w, R, r, d)
               IN  IF w1.exc = "ValueError"
                     THEN [w1 EXCEPT !.exc = "none", !.box = "warning"]
                     ELSE IF w1.anim.animation_running
                            THEN [stop_animation(w1) EXCEPT
                                     !.ui.animation_button = "Start"]
                            ELSE w1

\* mutant: the frame index is not reset after the points are generated
plot_curve_no_reset(w, fail) ==
    LET w1 == update_parameters(w)
        w2 == generate_points(w1, fail)
    IN  IF w2.ret # "True" THEN w2 ELSE draw_current_frame(w2)

plot_curve(w, fail) ==
    LET w1 == update_parameters(w)
        w2 == generate_points(w1, fail)
        w3 == [w2 EXCEPT !.anim.current_step = 0]
        w4 == slider_setValue(w3, 0)
    IN  IF w2.ret # "True"
          THEN w2
          ELSE IF w4.exc # "none" THEN w4 ELSE draw_current_frame(w4)

toggle_animation(w, fail) ==
    LET w1 == IF w.anim.points.len = 0 THEN generate_points(w, fail) ELSE w
    IN  IF w.anim.points.len = 0 /\ w1.ret # "True"
          THEN w1
          ELSE IF w1.anim.animation_running
                 THEN LET w2 == stop_animation(w1)
                      IN  IF w2.ret = "True"
                            THEN [w2 EXCEPT !.ui.animation_button = "Start"]
                            ELSE w2
                 ELSE LET w2 == start_animation(w1, fail)
                      IN  IF w2.ret = "True"
                            THEN [w2 EXCEPT !.ui.animation_button = "Stop"]
                            ELSE w2

\* mutant: clearing also discards the sample
clear_plots_discard(w) ==
    LET w1 == IF w.anim.animation_running
                THEN [stop_animation(w) EXCEPT !.ui.animation_button = "Start"]
                ELSE w
        w2 == [w1 EXCEPT !.anim.current_step = 0,
                         !.anim.points = EmptyList,
                         !.anim.polar_r = EmptyList,
                         !.anim.polar_theta = EmptyList,
                         !.anim.rolling_circle_x = EmptyList,
                         !.anim.rolling_circle_y = EmptyList]
    IN  slider_setValue(w2, 0)

clear_plots(w) ==
    LET w1 == IF w.anim.animation_running
                THEN [stop_animation(w) EXCEPT !.ui.animation_button = "Start"]
                ELSE w
        w2 == [w1 EXCEPT !.anim.current_step = 0]
    IN  slider_setValue(w2, 0)

(***************************************************************************)
(* The state machine                                                       *)
(***************************************************************************)
\* the state on entry to a call: nothing returned, raised, shown or drawn yet
World ==
    [curve |-> steiner_curve, anim |-> animator, ui |-> ui,
     ret |-> "None", exc |-> "none", box |-> "none", frames |-> 0,
     gen |-> "none", called |-> <<>>]

\* out records the last call: the method or event (op), its arguments, what it
\* returned (a Qt slot's return value is dropped), the exception that left it,
\* the message box it showed, the frames it drew and whether generate_points
\* ran in it (gen: "none", "ok" when it returned True, "failed" when False)
\* and the argument triples of the calls of set_parameters made in it (called)
Commit(w, ret, op, args) ==
    /\ steiner_curve' = w.curve
    /\ animator' = w.anim
    /\ ui' = w.ui
    /\ out' = [op |-> op, args |-> args, ret |-> ret, exc |-> w.exc,
               box |-> w.box, frames |-> w.frames, gen |-> w.gen,
               called |-> w.called]

Init ==
    /\ steiner_curve = [R |-> default_R, r |-> default_r, d |-> default_d]
    /\ animator = AnimatorInit
    /\ ui = UiInit
    /\ out = [op |-> "__init__", args |-> <<>>, ret |-> "None", exc |-> "none",
              box |-> "none", frames |-> 0, gen |-> "none",
              called |-> <<<<default_R, default_r, default_d>>>>]

\* an exception that leaves a slot ends the application (PyQt5 calls qFatal);
\* nothing handles an IndexError
Alive == out.exc # "IndexError"

\* --- events of the window -------------------------------------------------
\* the user changes the value of a spin box
SpinEdited ==
    \E box \in {"r_spin", "d_spin"}, v \in SpinInputs :
        /\ Alive
        /\ v # ui[box]
        /\ Commit(spin_setValue(World, box, v), "None", box, <<v>>)

\* the user changes the value of the R spin box
RSpinEdited ==
    \E v \in SpinInputs :
        /\ Alive
        /\ v # ui.R_spin
        /\ Commit(spin_setValue(World, "R_spin", v), "None", "R_spin", <<v>>)

PlotClicked(fail) ==
    /\ Alive
    /\ Commit(plot_curve(World, fail), "None", "plot", <<fail>>)

AnimationClicked(fail) ==
    /\ Alive
    /\ fail # "none" => animator.points.len = 0
    /\ Commit(toggle_animation(World, fail), "None", "toggle", <<fail>>)

ClearClicked ==
    /\ Alive
    /\ Commit(clear_plots(World), "None", "clear", <<>>)

\* the user moves the slider to another position
SliderMoved ==
    \E v \in SliderInputs :
        /\ Alive
        /\ v # ui.slider
        /\ Commit(slider_setValue(World, v), "None", "slider", <<v>>)

TimerTimeout ==
    /\ Alive
    /\ animator.timer_active
    /\ Commit(update_frame(World), "None", "timeout", <<>>)

Next ==
    \/ SpinEdited
    \/ PlotClicked("none")
    \/ AnimationClicked("none")
    \/ ClearClicked
    \/ SliderMoved
    \/ TimerTimeout

\* the window driven by its user and its timer, the evaluations of
\* generate_points not raising
Spec == Init /\ [][Next]_vars

NextFault ==
    \/ Next
    \/ \E fail \in FailPoints \ {"none"} : PlotClicked(fail)
    \/ \E fail \in FailPoints \ {"none"} : AnimationClicked(fail)

\* the same window when an evaluation inside generate_points may raise
SpecFault == Init /\ [][NextFault]_vars

\* --- calls of the public methods of SteinerCurve and Animator -------------
CallSetParameters(R, r, d) ==
    /\ Alive
    /\ Commit(set_parameters(World, R, r, d), "None", "set_parameters", <<R, r, d>>)

CallGeneratePoints(fail) ==
    /\ Alive
    /\ LET w == generate_points(World, fail)
       IN  Commit(w, w.ret, "generate_points", <<fail>>)

CallStartAnimation(fail) ==
    /\ Alive
    /\ fail # "none" => animator.points.len = 0
    /\ LET w == start_animation(World, fail)
       IN  Commit(w, w.ret, "start_animation", <<fail>>)

CallStopAnimation ==
    /\ Alive
    /\ LET w == stop_animation(World)
       IN  Commit(w, w.ret, "stop_animation", <<>>)

CallUpdateFrame ==
    /\ Alive
    /\ Commit(update_frame(World), "None", "update_frame", <<>>)

CallSetFrame(step) ==
    /\ Alive
    /\ Commit(set_frame(World, step), "None", "set_frame", <<step>>)

NextCore ==
    \/ CallGeneratePoints("none")
    \/ CallStartAnimation("none")
    \/ CallStopAnimation
    \/ CallUpdateFrame
    \/ \E step \in StepInputs : CallSetFrame(step)
    \/ TimerTimeout

\* the Animator driven through its methods by any host, on the curve it was
\* constructed with, the evaluations of generate_points not raising
SpecCore == Init /\ [][NextCore]_vars

NextCurve ==
    \E R \in ArgInputs, r \in ArgInputs, d \in ArgInputs : CallSetParameters(R, r, d)

\* the SteinerCurve object alone, set_parameters called with any arguments
SpecCurve == Init /\ [][NextCurve]_vars

NextSample ==
    \/ NextCurve
    \/ CallGeneratePoints("none")

\* samples generated from any parameters set_parameters accepts
SpecSample == Init /\ [][NextSample]_vars

NextParams ==
    \/ NextCurve
    \/ SpinEdited
    \/ RSpinEdited

\* the stored parameters written by direct calls of set_parameters and by
\* edits of the three spin boxes, in any order
SpecParams == Init /\ [][NextParams]_vars

(***************************************************************************)
(* Properties                                                              *)
(***************************************************************************)
SamplePresent == animator.points.len > 0
Idle == ~ SamplePresent
Paused == SamplePresent /\ ~ animator.animation_running
Running == SamplePresent /\ animator.animation_running

Lists(a) ==
    <<a.points, a.polar_r, a.polar_theta, a.rolling_circle_x, a.rolling_circle_y>>

\* C1: whenever a sample is present, 0 <= current_step < total_steps, and
\* current_step is an index of the generated points.
C1_FrameIndexInRange ==
    SamplePresent =>
        /\ 0 <= animator.current_step
        /\ animator.current_step < total_steps
        /\ animator.current_step < animator.points.len

\* the timer has carried the index to the last frame
C1_Witness ==
    /\ SamplePresent
    /\ out.op = "timeout"
    /\ animator.current_step = total_steps - 1

\* C2: set_parameters(R, r, d) raises exactly when R <= 0 or r <= 0 or d <= 0
\* or d > r; when it raises the stored triple is unchanged, otherwise the
\* stored triple is exactly (R, r, d).
C2_SetParametersAtomic ==
    [][out'.op = "set_parameters" =>
          LET R == out'.args[1]
              r == out'.args[2]
              d == out'.args[3]
          IN  IF R <= 0 \/ r <= 0 \/ d <= 0 \/ d > r
                THEN /\ out'.exc = "ValueError"
                     /\ steiner_curve' = steiner_curve
                ELSE /\ out'.exc = "none"
                     /\ steiner_curve'.R = R
                     /\ steiner_curve'.r = r
                     /\ steiner_curve'.d = d]_vars

\* a call was rejected after an earlier one had replaced the default triple
C2_Witness ==
    /\ out.op = "set_parameters"
    /\ out.exc = "ValueError"
    /\ steiner_curve = [R |-> default_R, r |-> 2 * default_r, d |-> 2 * default_d]

\* the lists generate_points stores when every evaluation succeeds
FreshLists(curve) ==
    LET p == [len |-> total_steps, R |-> curve.R, r |-> curve.r, d |-> curve.d,
              entry |-> "Point(x, y)"]
        c == [len |-> total_steps, R |-> curve.R, r |-> curve.r, d |-> 0,
              entry |-> "(R - r) * cos(t)"]
    IN  <<p,
          [p EXCEPT !.entry = "sqrt(p.x**2 + p.y**2)"],
          [p EXCEPT !.entry = "arctan2(p.y, p.x)"],
          c,
          [c EXCEPT !.entry = "(R - r) * sin(t)"]>>

\* C3 (as stated): every successful generate resets the frame index to 0, and
\* the one run by plot leaves the controller not running.
C3_GenerateResetsIndex ==
    [][out'.gen = "ok" =>
          /\ animator'.current_step = 0
          /\ out'.op = "plot" => ~ animator'.animation_running]_vars

\* C3 (amended): a successful generate replaces all lists of the sample by
\* ones computed from the stored parameters; plot then ends at frame 0 and not
\* running, while the play that generated from Idle keeps the frame index it
\* found and ends running.
C3_GenerateReplacesSample ==
    [][out'.gen = "ok" =>
          /\ Lists(animator') = FreshLists(steiner_curve')
          /\ out'.op = "plot" =>
                 /\ animator'.current_step = 0
                 /\ ~ animator'.animation_running
          /\ out'.op = "toggle" =>
                 /\ animator'.current_step = animator.current_step
                 /\ animator'.animation_running]_vars

\* play has generated the sample with the index a seek in Idle had left
C3_Witness ==
    /\ out.op = "toggle"
    /\ out.gen = "ok"
    /\ animator.animation_running
    /\ animator.current_step # 0

\* C4: a frame is drawn from a sample that was generated with the stored
\* parameters: the path with (R, r, d), the rolling-circle centers with (R, r).
C4_FrameMatchesParameters ==
    (SamplePresent /\ out.frames > 0) =>
        /\ animator.points.R = steiner_curve.R
        /\ animator.points.r = steiner_curve.r
        /\ animator.points.d = steiner_curve.d
        /\ animator.rolling_circle_x.R = steiner_curve.R
        /\ animator.rolling_circle_x.r = steiner_curve.r
        /\ animator.rolling_circle_y.R = steiner_curve.R
        /\ animator.rolling_circle_y.r = steiner_curve.r

\* C5 (as stated): set_frame while no sample exists raises NoSampleGenerated
\* and leaves the frame index alone.
C5_SeekInIdleFails ==
    [][(out'.op = "set_frame" /\ Idle) =>
          /\ out'.exc = "NoSampleGenerated"
          /\ animator'.current_step = animator.current_step]_vars

\* C5 (amended): set_frame(step) while no sample exists raises nothing and
\* draws nothing; it stores step mod total_steps as the frame index, and the
\* sample stays absent and the running flag unchanged.
C5_SeekInIdleStores ==
    [][(out'.op = "set_frame" /\ Idle) =>
          /\ out'.exc = "none"
          /\ out'.frames = 0
          /\ animator'.current_step \in 0 .. total_steps - 1
          /\ \E k \in -1 .. 1 :
                 out'.args[1] = k * total_steps + animator'.current_step
          /\ Lists(animator') = Lists(animator)
          /\ animator'.animation_running = animator.animation_running]_vars

\* a seek past the end was stored, wrapped, with no sample
C5_Witness ==
    /\ out.op = "set_frame"
    /\ out.args = <<total_steps + 1>>
    /\ Idle
    /\ animator.current_step = 1

\* C6: a generate that fails leaves all five lists and the frame index as
\* they were, and the running flag too when play invoked it.
C6_FailedGenerateKeepsSample ==
    [][out'.gen = "failed" =>
          /\ Lists(animator') = Lists(animator)
          /\ animator'.current_step = animator.current_step
          /\ out'.op = "toggle" =>
                 animator'.animation_running = animator.animation_running]_vars

\* C7: a timer tick moves the frame index to the next frame, the last frame
\* being followed by frame 0, moves the slider with it and stays running.
C7_TickAdvancesByOne ==
    [][out'.op = "timeout" =>
          /\ animator'.current_step =
                 IF animator.current_step = total_steps - 1
                   THEN 0
                   ELSE animator.current_step + 1
          /\ ui'.slider = animator'.current_step
          /\ animator'.animation_running
          /\ animator'.timer_active]_vars

\* a tick has wrapped from the last frame to frame 0
C7_Witness ==
    /\ out.op = "timeout"
    /\ Running
    /\ animator.current_step = 0

\* C8: set_frame(step) with a sample present stores step mod total_steps for
\* every integer step, raises nothing and changes neither the running flag,
\* the timer nor the sample.
C8_SeekWraps ==
    [][(out'.op = "set_frame" /\ SamplePresent) =>
          /\ out'.exc = "none"
          /\ animator'.current_step \in 0 .. total_steps - 1
          /\ \E k \in -1 .. 1 :
                 out'.args[1] = k * total_steps + animator'.current_step
          /\ Lists(animator') = Lists(animator)
          /\ animator'.animation_running = animator.animation_running
          /\ animator'.timer_active = animator.timer_active]_vars

\* set_frame(total_steps) while running has led to frame 0
C8_Witness ==
    /\ out.op = "set_frame"
    /\ out.args = <<total_steps>>
    /\ Running
    /\ out.frames = 1
    /\ animator.current_step = 0

\* C9: play (the animation button while not running) from Idle generates the
\* sample and ends running, or, when the generate fails, stays Idle and not
\* running; from Paused it ends running on the sample it found.
C9_Play ==
    [][(out'.op = "toggle" /\ ~ animator.animation_running) =>
          IF Idle
            THEN IF out'.gen = "ok"
                   THEN Running'
                   ELSE Idle' /\ ~ animator'.animation_running
            ELSE /\ Running'
                 /\ out'.gen = "none"
                 /\ Lists(animator') = Lists(animator)]_vars

\* C10: stop_animation while running clears the running flag, stops the
\* timer, returns True and keeps the frame index and the sample; otherwise it
\* returns False and changes nothing.
C10_Stop ==
    [][out'.op = "stop_animation" =>
          /\ steiner_curve' = steiner_curve
          /\ ui' = ui
          /\ IF animator.animation_running
               THEN /\ ~ animator'.animation_running
                    /\ ~ animator'.timer_active
                    /\ animator'.current_step = animator.current_step
                    /\ Lists(animator') = Lists(animator)
                    /\ out'.ret = "True"
               ELSE /\ animator' = animator
                    /\ out'.ret = "False"]_vars

\* the animation was stopped in the middle of the sample
C10_Witness ==
    /\ out.op = "stop_animation"
    /\ out.ret = "True"
    /\ Paused
    /\ animator.current_step = 1

\* C11: a tick (update_frame) delivered while the running flag is clear, in
\* Idle or in Paused, changes neither the frame index, the sample, the running
\* flag, the timer, the slider nor the parameters, draws no frame and raises
\* nothing.
C11_TickOutsideRunning ==
    [][(out'.op = "update_frame" /\ ~ animator.animation_running) =>
          /\ animator' = animator
          /\ ui' = ui
          /\ steiner_curve' = steiner_curve
          /\ out'.frames = 0
          /\ out'.exc = "none"]_vars

\* a tick arrived after the animation had been stopped at frame 1
C11_Witness ==
    /\ out.op = "update_frame"
    /\ Paused
    /\ ~ animator.timer_active
    /\ animator.current_step = 1

\* C12: in every state the stored parameters satisfy R > 0, r > 0, d > 0 and
\* d <= r, after any direct calls of set_parameters (valid or rejected) and
\* edits of the spin boxes; a call with valid arguments and R < r is accepted
\* and stored.
C12_StoredParametersValid ==
    /\ steiner_curve.R > 0
    /\ steiner_curve.r > 0
    /\ steiner_curve.d > 0
    /\ steiner_curve.d <= steiner_curve.r
    /\ (/\ out.op = "set_parameters"
        /\ out.args[1] > 0
        /\ out.args[3] > 0
        /\ out.args[3] <= out.args[2]
        /\ out.args[1] < out.args[2])
         => /\ out.exc = "none"
            /\ steiner_curve.R = out.args[1]
            /\ steiner_curve.r = out.args[2]
            /\ steiner_curve.R < steiner_curve.r

\* a triple with R < r is stored, and a call with d > r has just been rejected
C12_Witness ==
    /\ out.op = "set_parameters"
    /\ out.exc = "ValueError"
    /\ out.args[3] > out.args[2]
    /\ steiner_curve.R < steiner_curve.r

\* C13: whenever a sample is present its five lists have the same length,
\* total_steps, and were computed over the same angles from the same
\* parameters (the path and the polar lists from R, r, d, the rolling-circle
\* centers from R, r).
C13_SampleListsAligned ==
    SamplePresent =>
        /\ \A i \in 1 .. 5 : Lists(animator)[i].len = total_steps
        /\ \A i \in 1 .. 5 :
               /\ Lists(animator)[i].R = animator.points.R
               /\ Lists(animator)[i].r = animator.points.r
        /\ animator.polar_r.d = animator.points.d
        /\ animator.polar_theta.d = animator.points.d

\* C14: an edit of a spin box that leaves d > r is coerced by the window
\* before the curve is called: every call of set_parameters made while the
\* edit is handled has d <= r, no exception leaves the handler, and when the
\* entered d exceeds the entered r a warning is shown, the d box ends at r and
\* the stored triple is (entered R, entered r, entered r).
C14_WindowCoercesD ==
    [][out'.op \in {"R_spin", "r_spin", "d_spin"} =>
          LET entered == [ui EXCEPT ![out'.op] = out'.args[1]]
          IN  /\ \A i \in DOMAIN out'.called :
                     out'.called[i][3] <= out'.called[i][2]
              /\ out'.exc = "none"
              /\ entered.d_spin > entered.r_spin =>
                     /\ out'.box = "warning"
                     /\ ui'.R_spin = entered.R_spin
                     /\ ui'.r_spin = entered.r_spin
                     /\ ui'.d_spin = entered.r_spin
                     /\ steiner_curve' = [R |-> entered.R_spin,
                                          r |-> entered.r_spin,
                                          d |-> entered.r_spin]]_vars

\* r was lowered to 1.0 under a d of 2.0: d was pulled down to 1.0 and the
\* nested handler stored the triple in one call of set_parameters
C14_Witness ==
    /\ out.op = "r_spin"
    /\ out.args = <<100>>
    /\ out.box = "warning"
    /\ ui.d_spin = 100
    /\ Len(out.called) = 1
    /\ steiner_curve.r = 100
    /\ steiner_curve.d = 100

\* C15: in a frame that is drawn, the polar lists are the radii
\* sqrt(x^2 + y^2) and the angles atan2(y, x) of the stored Cartesian points,
\* index by index: they have the length of the points list and were computed
\* over the same angles from the same parameters, so the polar point of the
\* current frame is the current Cartesian point.
C15_PolarFromCartesian ==
    (SamplePresent /\ out.frames > 0) =>
        /\ animator.polar_r =
               [animator.points EXCEPT !.entry = "sqrt(p.x**2 + p.y**2)"]
        /\ animator.polar_theta =
               [animator.points EXCEPT !.entry = "arctan2(p.y, p.x)"]

\* C16: the point at index 0 of a generated sample, the one at t = 0, is
\* x = (R - r) + d, y = 0 for the stored parameters, whatever valid triple
\* they are (R < r included); for R = 3, r = 1, d = 1 it is (3, 0).
C16_PointAtZero ==
    out.gen = "ok" =>
        /\ Point(animator.points, 0) =
               [x |-> (steiner_curve.R - steiner_curve.r) + steiner_curve.d,
                y |-> 0]
        /\ steiner_curve = [R |-> 300, r |-> 100, d |-> 100]
               => Point(animator.points, 0) = [x |-> 300, y |-> 0]

\* a sample was generated for R = 1, r = 2, d = 2: it starts at (1, 0)
C16_Witness ==
    /\ out.gen = "ok"
    /\ steiner_curve = [R |-> 100, r |-> 200, d |-> 200]
    /\ Point(animator.points, 0) = [x |-> 100, y |-> 0]

\* C17: in every state the running flag implies that a sample is present, and
\* the timer is active exactly when the running flag is set.
C17_RunningHasSampleAndTimer ==
    /\ animator.animation_running => SamplePresent
    /\ animator.timer_active <=> animator.animation_running

\* start_animation was called in Idle: it generated the sample, then set the
\* flag and started the timer
C17_Witness ==
    /\ out.op = "start_animation"
    /\ out.gen = "ok"
    /\ out.ret = "True"
    /\ animator.animation_running
    /\ animator.timer_active
    /\ SamplePresent

\* C18: after every handler of the window that completed (a tick, a slider
\* move, plot, clear, and the others, which touch neither) the slider position
\* equals current_step.
C18_SliderFollowsFrameIndex ==
    out.exc = "none" => ui.slider = animator.current_step

\* a tick moved the index and the slider together from the last frame to 0;
\* the nested set_frame drew the frame and update_frame drew it again
C18_Witness ==
    /\ out.op = "timeout"
    /\ out.frames = 2
    /\ ui.slider = 0
    /\ animator.current_step = 0

\* C19: an edit of a spin box stores the parameters; made while the animation
\* runs it also stops it (flag cleared, timer stopped, button back to Start),
\* and in every case it leaves the frame index, the sample and the slider as
\* they were, draws nothing and generates nothing; made while not running it
\* changes nothing of the animator at all.
C19_ParameterChangeStops ==
    [][out'.op \in {"r_spin", "d_spin"} =>
          /\ steiner_curve' = [R |-> ui'.R_spin, r |-> ui'.r_spin,
                               d |-> ui'.d_spin]
          /\ ~ animator'.animation_running
          /\ ~ animator'.timer_active
          /\ animator'.current_step = animator.current_step
          /\ Lists(animator') = Lists(animator)
          /\ ui'.slider = ui.slider
          /\ ui'.animation_button = "Start"
          /\ out'.frames = 0
          /\ out'.gen = "none"
          /\ ~ animator.animation_running =>
                 /\ animator' = animator
                 /\ ui'.animation_button = ui.animation_button]_vars

\* r was edited after the timer had carried the animation to frame 2: it is
\* paused there, on the sample generated with the old parameters
C19_Witness ==
    /\ out.op = "r_spin"
    /\ Paused
    /\ ~ animator.timer_active
    /\ animator.current_step = 2
    /\ ui.animation_button = "Start"
    /\ animator.points.r # steiner_curve.r

\* C20: clear ends not running, timer stopped, at frame 0 with the slider at
\* 0, and keeps the sample and the parameters, so Paused or Running becomes
\* Paused and Idle stays Idle; a press of the animation button that follows a
\* clear with a sample starts the animation on that sample at frame 0 and
\* generates nothing.
C20_ClearKeepsSample ==
    [][/\ out'.op = "clear" =>
             /\ ~ animator'.animation_running
             /\ ~ animator'.timer_active
             /\ animator'.current_step = 0
             /\ ui'.slider = 0
             /\ ui'.animation_button = "Start"
             /\ Lists(animator') = Lists(animator)
             /\ steiner_curve' = steiner_curve
             /\ SamplePresent => Paused'
             /\ Idle => Idle'
       /\ (out.op = "clear" /\ SamplePresent /\ out'.op = "toggle") =>
             /\ Running'
             /\ animator'.timer_active
             /\ out'.gen = "none"
             /\ Lists(animator') = Lists(animator)
             /\ animator'.current_step = 0]_vars

\* clear with a sample and the slider away from 0: the nested set_frame(0)
\* drew frame 0 of the retained sample, and the controller is Paused
C20_Witness ==
    /\ out.op = "clear"
    /\ out.frames = 1
    /\ Paused
    /\ animator.current_step = 0
    /\ ui.slider = 0
    /\ ui.animation_button = "Start"

====
